---- MODULE Spec2Model ----
(***************************************************************************)
(* Model of netzob's aggregate variable node, Agg                          *)
(* (src/netzob/Common/Models/Vocabulary/Domain/Variables/Nodes/Agg.py).    *)
(*                                                                         *)
(* A tree of two aggregates is modelled: the root aggregate "R", whose     *)
(* children are drawn from the leaves A, B, C and the inner aggregate "I", *)
(* and "I", whose only possible child is the leaf D.  Every call of        *)
(* isDefined / read / write / buildRegex on the root is one atomic action  *)
(* (the code is synchronous and single threaded); the calls it makes on    *)
(* its children, recursively, are part of that action.  The outcome of a   *)
(* leaf's read or write and the order chosen by a shuffle or sort are      *)
(* inputs of the action (an oracle).                                       *)
(***************************************************************************)
EXTENDS Integers, Sequences, FiniteSets, TLC

VARIABLES
    children,   \* children[a]: the aggregate's current self.children list
    declared,   \* history: the order in which a's children were declared
    mutable,    \* mutable[a]: the aggregate's mutable flag
    chopped,    \* chopped[a]: a holds a final value and chopped indexes of a write
    tok,        \* the processing token of the last call, as the call left it
    log,        \* the events of the last call, in order
    call        \* the last call: operation, entry state and result

vars == <<children, declared, mutable, chopped, tok, log, call>>

\* Largest number of children an aggregate holds in the model.
MaxChildren == 3

\* Largest number of leaves that fail in one traversal.
MaxFailing == 1

Root == "R"
Inner == "I"
Aggs == {Root, Inner}
Leaves == {"A", "B", "C", "D"}
Nodes == Aggs \cup Leaves

\* The nodes that may be a child of each aggregate (a tree: no sharing).
Candidates(a) == IF a = Root THEN {"A", "B", "C", Inner} ELSE {"D"}

Range(s) == {s[i] : i \in 1..Len(s)}

\* The sequences without repetition over S, of length at most n.
RECURSIVE DistinctSeqs(_, _)
DistinctSeqs(S, n) ==
    IF n = 0 THEN {<<>>}
    ELSE LET shorter == DistinctSeqs(S, n - 1)
         IN shorter \cup UNION {{Append(s, x) : x \in S \ Range(s)} : s \in shorter}

\* The orderings of the elements of sequence s.
PermsOf(s) == {p \in DistinctSeqs(Range(s), Len(s)) : Len(p) = Len(s)}

\* ---------------------------------------------------------------- tokens
\* A processing token: present = FALSE is the absent token (None).
MemChoices == {{}, {"A", "B", "D"}, Leaves}

NoneToken == [present |-> FALSE, Ok |-> TRUE, index |-> 0, value |-> <<>>, memory |-> {}]

FreshTokens == {[present |-> TRUE, Ok |-> ok, index |-> 0, value |-> <<>>, memory |-> m] :
                    ok \in BOOLEAN, m \in MemChoices}

TokenInputs == FreshTokens \cup {NoneToken}

\* The tokens of the read and write calls: the memory plays no part in them.
AccessTokens == {t \in TokenInputs : t.memory = {}}

\* What a leaf's read or write does with the token.
Outcomes == {"ok", "fail"}

\* The run state threaded through one call.
RunState(ch, cp, t) ==
    [children |-> ch, chopped |-> cp, tok |-> t, log |-> <<>>, err |-> "", ret |-> FALSE]

\* An event of the log: what happened, in which aggregate, to which child (or
\* of which kind), and the token's success flag and cursor at that moment.
Ev(e, a, x) == [ev |-> e, agg |-> a, arg |-> x]

Emit(st, e) == [st EXCEPT !.log = Append(@, [ev |-> e.ev, agg |-> e.agg, arg |-> e.arg,
                                             ok |-> st.tok.Ok, index |-> st.tok.index])]

raise(st, e) == [st EXCEPT !.err = e]

\* ---------------------------------------------------------------- leaves
\* A terminal child: it reads or writes its share of the value and advances
\* the cursor, or flags the failure on the token.
LeafAccess(l, st, orc) ==
    IF orc.out[l] = "ok"
    THEN [st EXCEPT !.tok.index = @ + 1, !.tok.value = Append(@, l)]
    ELSE [st EXCEPT !.tok.Ok = FALSE]

LeafIsDefined(l, t) == l \in t.memory

LeafRegex(l) ==
    CASE l = "A" -> <<"(68656c6c6f)">>
      [] l = "B" -> <<"(.{10,20})">>
      [] l = "C" -> <<"(.{0,2})">>
      [] OTHER   -> <<"(6869)">>

\* ------------------------------------------- AbstractVariableNode helpers
\* self.resetTokenChoppedIndexes(): forgets the final value computed by the
\* previous write access and the references to it.
resetTokenChoppedIndexes(self, st) ==
    Emit([st EXCEPT !.chopped[self] = FALSE], Ev("reset", self, ""))

\* self.shuffleChildren(): puts self.children in a random order.
shuffleChildren(self, st, orc) ==
    Emit([st EXCEPT !.children[self] = orc.order[self]], Ev("shuffle", self, ""))

\* self.sortChildrenToRead(token): puts self.children in the order in which
\* they are to be read.
sortChildrenToRead(self, st, orc) ==
    Emit([st EXCEPT !.children[self] = orc.order[self]], Ev("sort", self, ""))

\* self.notifyBoundedVariables(kind, token[, value])
notifyBoundedVariables(self, kind, st) == Emit(st, Ev("notify", self, kind))

\* NetzobRegex.buildRegexForAggregateRegexes(regexes): the concatenation.
RECURSIVE buildRegexForAggregateRegexes(_)
buildRegexForAggregateRegexes(regexes) ==
    IF regexes = <<>> THEN <<>>
    ELSE Head(regexes) \o buildRegexForAggregateRegexes(Tail(regexes))

\* --------------------------------------------------------------- Agg
RECURSIVE isDefinedFrom(_, _, _), isDefined(_, _)
RECURSIVE readChildrenFrom(_, _, _, _), read(_, _, _)
RECURSIVE writeChildrenFrom(_, _, _, _), write(_, _, _)
RECURSIVE buildRegex(_, _)

ChildIsDefined(c, st) ==
    IF c \in Aggs THEN isDefined(c, st)
    ELSE [st EXCEPT !.ret = LeafIsDefined(c, st.tok)]

\* The loop with "return True" inside it: the first child decides.
isDefinedFrom_FirstOnly(self, st, i) ==
    IF i > Len(st.children[self]) THEN [st EXCEPT !.ret = TRUE]
    ELSE ChildIsDefined(st.children[self][i],
                        Emit(st, Ev("isDefined", self, st.children[self][i])))

\* The loop without the early "return False": every child is asked.
isDefinedFrom_NoShortCircuit(self, st, i) ==
    IF i > Len(st.children[self]) THEN [st EXCEPT !.ret = TRUE]
    ELSE LET c  == st.children[self][i]
             s1 == ChildIsDefined(c, Emit(st, Ev("isDefined", self, c)))
             s2 == isDefinedFrom(self, s1, i + 1)
         IN [s2 EXCEPT !.ret = s1.ret /\ s2.ret]

\* Agg.isDefined, lines 92-95: the loop over self.children, from child i on.
isDefinedFrom(self, st, i) ==
    IF i > Len(st.children[self]) THEN [st EXCEPT !.ret = TRUE]
    ELSE LET c  == st.children[self][i]
             s1 == ChildIsDefined(c, Emit(st, Ev("isDefined", self, c)))
         IN IF ~s1.ret THEN [s1 EXCEPT !.ret = FALSE]
            ELSE isDefinedFrom(self, s1, i + 1)

isDefined(self, st) ==
    IF ~st.tok.present THEN raise(st, "TypeError")
    ELSE IF Len(st.children[self]) > 0 THEN isDefinedFrom(self, st, 1)
    ELSE [st EXCEPT !.ret = FALSE]

ChildRead(c, st, orc) ==
    IF c \in Aggs THEN read(c, st, orc) ELSE LeafAccess(c, st, orc)

\* self.readChildren(token): every child reads in turn, until one fails.
readChildrenFrom(self, st, orc, i) ==
    IF i > Len(st.children[self]) THEN st
    ELSE LET c  == st.children[self][i]
             s1 == Emit(ChildRead(c, Emit(st, Ev("read", self, c)), orc),
                        Ev("back", self, c))
         IN IF ~s1.tok.Ok THEN s1 ELSE readChildrenFrom(self, s1, orc, i + 1)

readChildren(self, st, orc) == readChildrenFrom(self, st, orc, 1)

\* read with the else of "if self.mutable" lost: a mutable aggregate reads its
\* children a second time after the sorted pass.
read_NoElse(self, st, orc) ==
    IF ~st.tok.present THEN raise(st, "TypeError")
    ELSE LET s1 == IF Len(st.children[self]) > 0
                   THEN readChildren(self,
                            IF mutable[self]
                            THEN readChildren(self, sortChildrenToRead(self, st, orc), orc)
                            ELSE st, orc)
                   ELSE [st EXCEPT !.tok.Ok = FALSE]
         IN IF s1.tok.Ok THEN notifyBoundedVariables(self, "read", s1) ELSE s1

\* read with the notification made whatever the success flag.
read_AlwaysNotify(self, st, orc) ==
    IF ~st.tok.present THEN raise(st, "TypeError")
    ELSE LET s1 == IF Len(st.children[self]) > 0
                   THEN IF mutable[self]
                        THEN readChildren(self, sortChildrenToRead(self, st, orc), orc)
                        ELSE readChildren(self, st, orc)
                   ELSE [st EXCEPT !.tok.Ok = FALSE]
         IN notifyBoundedVariables(self, "read", s1)

\* read with len(self.children) >= 0 as the test: no failure without children.
read_NoChildOk(self, st, orc) ==
    IF ~st.tok.present THEN raise(st, "TypeError")
    ELSE LET s1 == IF mutable[self]
                   THEN readChildren(self, sortChildrenToRead(self, st, orc), orc)
                   ELSE readChildren(self, st, orc)
         IN IF s1.tok.Ok THEN notifyBoundedVariables(self, "read", s1) ELSE s1

\* read that starts by setting the success flag true.
read_ResetsOk(self, st, orc) ==
    IF ~st.tok.present THEN raise(st, "TypeError")
    ELSE LET s0 == [st EXCEPT !.tok.Ok = TRUE]
             s1 == IF Len(s0.children[self]) > 0
                   THEN IF mutable[self]
                        THEN readChildren(self, sortChildrenToRead(self, s0, orc), orc)
                        ELSE readChildren(self, s0, orc)
                   ELSE [s0 EXCEPT !.tok.Ok = FALSE]
         IN IF s1.tok.Ok THEN notifyBoundedVariables(self, "read", s1) ELSE s1

\* read that puts the token's cursor and value back when it fails.
read_Rollback(self, st, orc) ==
    IF ~st.tok.present THEN raise(st, "TypeError")
    ELSE LET s1 == IF Len(st.children[self]) > 0
                   THEN IF mutable[self]
                        THEN readChildren(self, sortChildrenToRead(self, st, orc), orc)
                        ELSE readChildren(self, st, orc)
                   ELSE [st EXCEPT !.tok.Ok = FALSE]
         IN IF s1.tok.Ok THEN notifyBoundedVariables(self, "read", s1)
            ELSE [s1 EXCEPT !.tok.index = st.tok.index, !.tok.value = st.tok.value]

\* read that notifies before its children have read.
read_NotifyFirst(self, st, orc) ==
    IF ~st.tok.present THEN raise(st, "TypeError")
    ELSE LET s0 == IF st.tok.Ok /\ Len(st.children[self]) > 0
                   THEN notifyBoundedVariables(self, "read", st) ELSE st
         IN IF Len(s0.children[self]) > 0
            THEN IF mutable[self]
                 THEN readChildren(self, sortChildrenToRead(self, s0, orc), orc)
                 ELSE readChildren(self, s0, orc)
            ELSE [s0 EXCEPT !.tok.Ok = FALSE]

read(self, st, orc) ==
    IF ~st.tok.present THEN raise(st, "TypeError")
    ELSE LET s1 == IF Len(st.children[self]) > 0
                   THEN IF mutable[self]
                        THEN readChildren(self, sortChildrenToRead(self, st, orc), orc)
                        ELSE readChildren(self, st, orc)
                   ELSE [st EXCEPT !.tok.Ok = FALSE]
         IN IF s1.tok.Ok THEN notifyBoundedVariables(self, "read", s1) ELSE s1

ChildWrite(c, st, orc) ==
    IF c \in Aggs THEN write(c, st, orc) ELSE LeafAccess(c, st, orc)

\* self.writeChildren(token): every child writes in turn, until one fails;
\* the aggregate keeps a reference to what each child wrote.
writeChildrenFrom(self, st, orc, i) ==
    IF i > Len(st.children[self]) THEN st
    ELSE LET c  == st.children[self][i]
             s1 == Emit(ChildWrite(c, Emit(st, Ev("write", self, c)), orc),
                        Ev("back", self, c))
         IN IF ~s1.tok.Ok THEN s1
            ELSE writeChildrenFrom(self, [s1 EXCEPT !.chopped[self] = TRUE],
                                   orc, i + 1)

writeChildren(self, st, orc) == writeChildrenFrom(self, st, orc, 1)

isMutable(self) == mutable[self]

\* write with the else of "if self.isMutable()" lost: a mutable aggregate
\* writes its children a second time after the shuffled pass.
write_NoElse(self, st, orc) ==
    IF ~st.tok.present THEN raise(st, "TypeError")
    ELSE LET s0 == resetTokenChoppedIndexes(self, st)
             s1 == IF Len(s0.children[self]) > 0
                   THEN writeChildren(self,
                            IF isMutable(self)
                            THEN writeChildren(self, shuffleChildren(self, s0, orc), orc)
                            ELSE s0, orc)
                   ELSE [s0 EXCEPT !.tok.Ok = FALSE]
         IN IF s1.tok.Ok THEN notifyBoundedVariables(self, "write", s1) ELSE s1

\* write that shuffles whatever the mutable flag.
write_AlwaysShuffle(self, st, orc) ==
    IF ~st.tok.present THEN raise(st, "TypeError")
    ELSE LET s0 == resetTokenChoppedIndexes(self, st)
             s1 == IF Len(s0.children[self]) > 0
                   THEN writeChildren(self, shuffleChildren(self, s0, orc), orc)
                   ELSE [s0 EXCEPT !.tok.Ok = FALSE]
         IN IF s1.tok.Ok THEN notifyBoundedVariables(self, "write", s1) ELSE s1

\* write with the reset made before the token is checked.
write_ResetFirst(self, st, orc) ==
    LET s0 == resetTokenChoppedIndexes(self, st)
    IN IF ~st.tok.present THEN raise(s0, "TypeError")
       ELSE LET s1 == IF Len(s0.children[self]) > 0
                      THEN IF isMutable(self)
                           THEN writeChildren(self, shuffleChildren(self, s0, orc), orc)
                           ELSE writeChildren(self, s0, orc)
                      ELSE [s0 EXCEPT !.tok.Ok = FALSE]
            IN IF s1.tok.Ok THEN notifyBoundedVariables(self, "write", s1) ELSE s1

\* write with the reset made only once the children have written.
write_LateReset(self, st, orc) ==
    IF ~st.tok.present THEN raise(st, "TypeError")
    ELSE LET s1 == IF Len(st.children[self]) > 0
                   THEN IF isMutable(self)
                        THEN writeChildren(self, shuffleChildren(self, st, orc), orc)
                        ELSE writeChildren(self, st, orc)
                   ELSE [st EXCEPT !.tok.Ok = FALSE]
             s2 == IF s1.tok.Ok THEN resetTokenChoppedIndexes(self, s1) ELSE s1
         IN IF s2.tok.Ok THEN notifyBoundedVariables(self, "write", s2) ELSE s2

write(self, st, orc) ==
    IF ~st.tok.present THEN raise(st, "TypeError")
    ELSE LET s0 == resetTokenChoppedIndexes(self, st)
             s1 == IF Len(s0.children[self]) > 0
                   THEN IF isMutable(self)
                        THEN writeChildren(self, shuffleChildren(self, s0, orc), orc)
                        ELSE writeChildren(self, s0, orc)
                   ELSE [s0 EXCEPT !.tok.Ok = FALSE]
         IN IF s1.tok.Ok THEN notifyBoundedVariables(self, "write", s1) ELSE s1

ChildRegex(c, ch) == IF c \in Aggs THEN buildRegex(c, ch) ELSE LeafRegex(c)

\* The children's patterns collected last child first.
regexes_Reversed(self, ch) ==
    [i \in 1..Len(ch[self]) |-> ChildRegex(ch[self][Len(ch[self]) + 1 - i], ch)]

\* line 182: regexes = [child.buildRegex() for child in self.children]
regexes(self, ch) == [i \in 1..Len(ch[self]) |-> ChildRegex(ch[self][i], ch)]

\* The result of a buildRegex that gives up: no pattern.
NoPattern == <<"None">>

\* buildRegex giving up without children, as read and write do.
buildRegex_NoChildFails(self, ch) ==
    IF Len(ch[self]) > 0 THEN buildRegexForAggregateRegexes(regexes(self, ch))
    ELSE NoPattern

buildRegex(self, ch) == buildRegexForAggregateRegexes(regexes(self, ch))

\* ------------------------------------------------------------ the calls
NoCall == [op |-> "none", present |-> FALSE, okIn |-> TRUE, err |-> "", ret |-> FALSE,
           regex |-> <<>>, handed |-> <<>>]

\* The leaves below the root, whose outcome a read or write may depend on.
LeavesInTree ==
    (Range(children[Root]) \cup
        (IF Inner \in Range(children[Root]) THEN Range(children[Inner]) ELSE {})) \ Aggs

\* The leaves that fail in one traversal: at most MaxFailing of them.
FailSets == {F \in SUBSET LeavesInTree : Cardinality(F) <= MaxFailing}

\* The inputs a traversal draws besides the token: each leaf's outcome, and
\* the order a shuffle or sort of each aggregate would yield.
Oracles(t) ==
    IF ~t.present
    THEN {[out |-> [l \in LeavesInTree |-> "ok"], order |-> children]}
    ELSE {[out |-> [l \in LeavesInTree |-> IF l \in F THEN "fail" ELSE "ok"],
           order |-> [a \in Aggs |-> IF a = Root THEN pr ELSE pi]] :
              F \in FailSets,
              pr \in PermsOf(children[Root]),
              pi \in PermsOf(children[Inner])}

Init ==
    /\ children \in [Aggs -> DistinctSeqs(Nodes, MaxChildren)]
    /\ \A a \in Aggs : Range(children[a]) \subseteq Candidates(a)
    /\ declared = children
    /\ mutable \in [Aggs -> BOOLEAN]
    /\ chopped = [a \in Aggs |-> FALSE]
    /\ tok = NoneToken
    /\ log = <<>>
    /\ call = NoCall

Finish(st, c) ==
    /\ children' = st.children
    /\ chopped' = st.chopped
    /\ tok' = st.tok
    /\ log' = st.log
    /\ call' = [c EXCEPT !.err = st.err, !.ret = st.ret]
    /\ UNCHANGED <<declared, mutable>>

Entry(name, t) == [NoCall EXCEPT !.op = name, !.present = t.present, !.okIn = t.Ok]

\* No call is being observed: the caller holds no token.
Idle == call.op = "none"

\* The caller is done with the token of the last call (a token serves one
\* traversal) and with what it observed of it.
Discard ==
    /\ ~Idle
    /\ tok' = NoneToken
    /\ log' = <<>>
    /\ call' = NoCall
    /\ UNCHANGED <<children, declared, mutable, chopped>>

IsDefinedCall ==
    /\ Idle
    /\ \E t \in TokenInputs :
        Finish(isDefined(Root, RunState(children, chopped, t)), Entry("isDefined", t))

ReadCall ==
    /\ Idle
    /\ \E t \in AccessTokens : \E orc \in Oracles(t) :
        Finish(read(Root, RunState(children, chopped, t), orc), Entry("read", t))

WriteCall ==
    /\ Idle
    /\ \E t \in AccessTokens : \E orc \in Oracles(t) :
        Finish(write(Root, RunState(children, chopped, t), orc), Entry("write", t))

\* buildRegex that, as write does, shuffles a mutable aggregate's children.
BuildRegexCall_Shuffles ==
    /\ Idle \/ call.op = "buildRegex"
    /\ \E p \in PermsOf(children[Root]) :
          LET ch == IF mutable[Root] THEN [children EXCEPT ![Root] = p] ELSE children
          IN /\ children' = ch
             /\ call' = [NoCall EXCEPT !.op = "buildRegex",
                                       !.handed = regexes(Root, ch),
                                       !.regex = buildRegex(Root, ch)]
    /\ tok' = NoneToken
    /\ log' = <<>>
    /\ UNCHANGED <<declared, mutable, chopped>>

BuildRegexCall ==
    /\ Idle \/ call.op = "buildRegex"
    /\ call' = [NoCall EXCEPT !.op = "buildRegex",
                              !.handed = regexes(Root, children),
                              !.regex = buildRegex(Root, children)]
    /\ tok' = NoneToken
    /\ log' = <<>>
    /\ UNCHANGED <<children, declared, mutable, chopped>>

\* domain.children.append(child), between two traversals.
AppendChild ==
    \E a \in Aggs, c \in Nodes :
        /\ Idle
        /\ c \in Candidates(a) \ Range(children[a])
        /\ Len(children[a]) < MaxChildren
        /\ children' = [children EXCEPT ![a] = Append(@, c)]
        /\ declared' = [declared EXCEPT ![a] = Append(@, c)]
        /\ UNCHANGED <<mutable, chopped, tok, log, call>>

Without(s, c) == SelectSeq(s, LAMBDA x : x # c)

\* domain.children.remove(child), between two traversals.
RemoveChild ==
    \E a \in Aggs, c \in Nodes :
        /\ Idle
        /\ c \in Range(children[a])
        /\ children' = [children EXCEPT ![a] = Without(@, c)]
        /\ declared' = [declared EXCEPT ![a] = Without(@, c)]
        /\ UNCHANGED <<mutable, chopped, tok, log, call>>

Next ==
    \/ IsDefinedCall
    \/ ReadCall
    \/ WriteCall
    \/ BuildRegexCall
    \/ AppendChild
    \/ RemoveChild
    \/ Discard

Spec == Init /\ [][Next]_vars

\* ------------------------------------------------------- observations
IsAccess == call.op \in {"read", "write"} /\ call.present

IsInvoke(e) == e.ev \in {"read", "write"}

\* The children aggregate a invoked during the last call, in order.
Invocations(a) == SelectSeq(log, LAMBDA e : IsInvoke(e) /\ e.agg = a)

InvokedSeq(a) == [i \in 1..Len(Invocations(a)) |-> Invocations(a)[i].arg]

Notifications(a) == SelectSeq(log, LAMBDA e : e.ev = "notify" /\ e.agg = a)

\* Aggregate a was entered by the last call.
Entered(a) == a = Root \/ \E i \in 1..Len(log) : IsInvoke(log[i]) /\ log[i].arg = a

\* The token's success flag when aggregate a returned.
ReturnedOk(a) ==
    IF a = Root THEN tok.Ok
    ELSE \E i \in 1..Len(log) : log[i].ev = "back" /\ log[i].arg = a /\ log[i].ok

\* C1: stop on first failure.  In a read or a write, once a child of an
\* aggregate has returned with the token's success flag false, that aggregate
\* invokes no further child, and the flag is false when the call returns.
StopOnFirstFailure ==
    IsAccess =>
        \A i \in 1..Len(log) :
            (log[i].ev = "back" /\ ~log[i].ok) =>
                /\ \A j \in (i + 1)..Len(log) :
                       ~(IsInvoke(log[j]) /\ log[j].agg = log[i].agg)
                /\ ~tok.Ok

\* Three children, the second fails a read: the third is never invoked.
StopOnFirstFailureWitness ==
    /\ IsAccess /\ call.op = "read" /\ call.okIn
    /\ Len(children[Root]) = 3
    /\ InvokedSeq(Root) = SubSeq(children[Root], 1, 2)
    /\ \E i \in 1..Len(log) :
           log[i].ev = "back" /\ log[i].arg = children[Root][2] /\ ~log[i].ok
    /\ ~tok.Ok

\* C2: a read or write that ends with the success flag true emits exactly one
\* notification of its kind from the aggregate, and one that ends with the
\* flag false emits none; so for the root and for an inner aggregate entered.
NotifyExactlyOnSuccess ==
    IsAccess =>
        \A a \in Aggs :
            Entered(a) =>
                /\ ReturnedOk(a) =>
                       /\ Len(Notifications(a)) = 1
                       /\ Notifications(a)[1].arg = call.op
                /\ ~ReturnedOk(a) => Notifications(a) = <<>>

\* A successful write of three children: one notification from the root.
NotifyExactlyOnSuccessWitness ==
    /\ IsAccess /\ call.op = "write" /\ tok.Ok
    /\ Len(children[Root]) = 3
    /\ Len(Notifications(Root)) = 1

\* C3: an aggregate without children is never defined, and its read and its
\* write leave the success flag false, invoke nothing and notify nothing,
\* whether it is mutable or not.
NoChildNeverSucceeds ==
    (children[Root] = <<>> /\ call.present) =>
        /\ call.op = "isDefined" => ~call.ret
        /\ call.op \in {"read", "write"} =>
               /\ ~tok.Ok
               /\ \A i \in 1..Len(log) : ~IsInvoke(log[i]) /\ log[i].ev # "notify"

\* A mutable aggregate without children fails a read entered with the flag true.
NoChildNeverSucceedsWitness ==
    /\ children[Root] = <<>> /\ call.present /\ call.op = "read"
    /\ mutable[Root] /\ call.okIn /\ ~tok.Ok

\* C4: in every write with a token, the aggregate's final value and chopped
\* indexes are reset before any of its children writes, also when the write
\* then fails: the reset is the first thing the root does, and unless a child
\* has written since, nothing computed before the call is left.
ResetBeforeChildren ==
    (call.op = "write" /\ call.present) =>
        /\ log # <<>> /\ log[1].ev = "reset" /\ log[1].agg = Root
        /\ \A i \in 1..Len(log) :
               log[i].ev = "write" =>
                   \E j \in 1..(i - 1) : log[j].ev = "reset" /\ log[j].agg = log[i].agg
        /\ \A a \in Aggs :
               (Entered(a) /\ ~\E i \in 1..Len(log) :
                                  log[i].ev = "back" /\ log[i].agg = a /\ log[i].ok)
                   => ~chopped[a]

\* A write that fails at its first child, after the reset.
ResetBeforeChildrenWitness ==
    /\ call.op = "write" /\ call.present /\ call.okIn /\ ~tok.Ok
    /\ Len(children[Root]) >= 2
    /\ Len(Invocations(Root)) = 1
    /\ log[1].ev = "reset"
    /\ ~chopped[Root]

\* The pattern of child c when the aggregates' children are ch: a leaf's own
\* pattern, and for the inner aggregate its leaves' patterns one after another.
RECURSIVE Cat(_)
Cat(ps) == IF ps = <<>> THEN <<>> ELSE Head(ps) \o Cat(Tail(ps))

PatternOf(c, ch) ==
    IF c \in Aggs THEN Cat([i \in 1..Len(ch[c]) |-> LeafRegex(ch[c][i])])
    ELSE LeafRegex(c)

PatternsOf(a, ch) == [i \in 1..Len(ch[a]) |-> PatternOf(ch[a][i], ch)]

IsPermutation(s, t) == Len(s) = Len(t) /\ Range(s) = Range(t)

\* C5: buildRegex returns the concatenation of the children's patterns in the
\* order in which the children were declared, whatever the mutable flag and
\* whatever reads and writes came before.
PatternInDeclarationOrder ==
    call.op = "buildRegex" => call.regex = Cat(PatternsOf(Root, declared))

\* C6: the order a mutable aggregate processes its children in is a
\* permutation of its children: the children list stays a permutation of the
\* declared children, and a read or write the aggregate returns from with the
\* success flag true has invoked every child exactly once.
MutableOrderIsPermutation ==
    \A a \in Aggs :
        /\ IsPermutation(children[a], declared[a])
        /\ (IsAccess /\ mutable[a] /\ Entered(a) /\ ReturnedOk(a)) =>
               IsPermutation(InvokedSeq(a), declared[a])

\* A successful write of a mutable aggregate of three children, in another
\* order than the declared one.
MutableOrderIsPermutationWitness ==
    /\ IsAccess /\ call.op = "write" /\ mutable[Root] /\ tok.Ok
    /\ Len(declared[Root]) = 3
    /\ InvokedSeq(Root) # declared[Root]
    /\ IsPermutation(InvokedSeq(Root), declared[Root])

\* The leaves below the root in declaration order.
DeclaredLeaves ==
    Cat([i \in 1..Len(declared[Root]) |->
            IF declared[Root][i] \in Aggs THEN declared[declared[Root][i]]
            ELSE <<declared[Root][i]>>])

\* C7: an aggregate that is not mutable keeps its children in declaration
\* order and invokes them in that order in every read and write; with no
\* mutable aggregate in the tree the token's value is fixed by the declaration
\* order and the number of leaves that succeeded, so equal inputs give equal
\* results.
DeclarationOrderWhenNotMutable ==
    /\ \A a \in Aggs :
           ~mutable[a] =>
               /\ children[a] = declared[a]
               /\ (IsAccess /\ Entered(a)) =>
                      /\ Len(InvokedSeq(a)) <= Len(declared[a])
                      /\ InvokedSeq(a) = SubSeq(declared[a], 1, Len(InvokedSeq(a)))
    /\ (IsAccess /\ \A a \in Aggs : ~mutable[a]) =>
           /\ tok.index <= Len(DeclaredLeaves)
           /\ tok.value = SubSeq(DeclaredLeaves, 1, tok.index)

\* A successful write of three children, the inner aggregate among them, in
\* declaration order.
DeclarationOrderWhenNotMutableWitness ==
    /\ IsAccess /\ call.op = "write" /\ ~mutable[Root] /\ ~mutable[Inner] /\ tok.Ok
    /\ Len(declared[Root]) = 3 /\ declared[Root][2] = Inner
    /\ InvokedSeq(Root) = declared[Root]
    /\ tok.value = DeclaredLeaves

\* Child c is defined under token t, with children ch.
DefinedUnder(c, ch, t) ==
    IF c \in Aggs THEN Len(ch[c]) > 0 /\ \A l \in Range(ch[c]) : l \in t.memory
    ELSE c \in t.memory

\* C8: with a token, isDefined returns true exactly when the aggregate has a
\* child and every child is defined under the token, and it returns the same
\* for every order of the same children.
IsDefinedIffAllChildrenDefined ==
    (call.op = "isDefined" /\ call.present) =>
        /\ call.ret <=> /\ Len(children[Root]) > 0
                        /\ \A c \in Range(children[Root]) : DefinedUnder(c, children, tok)
        /\ \A p \in PermsOf(children[Root]) :
               isDefined(Root, RunState([children EXCEPT ![Root] = p], chopped, tok)).ret
                   = call.ret

\* Three children, the inner aggregate among them, all defined.
IsDefinedIffAllChildrenDefinedWitness ==
    /\ call.op = "isDefined" /\ call.present /\ call.ret
    /\ Len(children[Root]) = 3 /\ Inner \in Range(children[Root])

\* C9: buildRegex hands the pattern builder the children's patterns, each
\* once and in the order of the children, and returns what the builder makes
\* of them; the literal "hello" followed by a text of 5 to 10 characters gives
\* (68656c6c6f)(.{10,20}).
BuildRegexHandsChildPatterns ==
    call.op = "buildRegex" =>
        /\ call.handed = PatternsOf(Root, children)
        /\ call.regex = buildRegexForAggregateRegexes(call.handed)
        /\ children[Root] = <<"A", "B">> =>
               call.regex = <<"(68656c6c6f)", "(.{10,20})">>

\* The pattern of the literal followed by the variable-length text.
BuildRegexHandsChildPatternsWitness ==
    /\ call.op = "buildRegex" /\ children[Root] = <<"A", "B">>
    /\ call.regex = <<"(68656c6c6f)", "(.{10,20})">>

\* C10: isDefined, read and write raise TypeError on an absent token, and only
\* then, before anything is changed: the call invokes and notifies nothing and
\* leaves the children's order and the final value / chopped indexes alone.
AbsentTokenAborts ==
    [][(call'.op \in {"isDefined", "read", "write"}) =>
          /\ call'.err = "TypeError" <=> ~call'.present
          /\ ~call'.present =>
                 /\ log' = <<>>
                 /\ children' = children
                 /\ chopped' = chopped]_vars

\* A write without token on a mutable aggregate that holds a final value.
AbsentTokenAbortsWitness ==
    /\ call.op = "write" /\ ~call.present /\ call.err = "TypeError"
    /\ mutable[Root] /\ Len(children[Root]) >= 2 /\ chopped[Root]
    /\ log = <<>>

\* C11: buildRegex of an aggregate without children does not fail: it hands
\* the builder the empty sequence and returns the builder's result for it, the
\* empty pattern; an inner aggregate without children adds the empty pattern
\* to its parent's.
NoChildNeutralPattern ==
    call.op = "buildRegex" =>
        /\ call.err = ""
        /\ call.regex # NoPattern
        /\ children[Root] = <<>> =>
               /\ call.handed = <<>>
               /\ call.regex = buildRegexForAggregateRegexes(<<>>)
               /\ call.regex = <<>>
        /\ \A i \in 1..Len(children[Root]) :
               (children[Root][i] = Inner /\ children[Inner] = <<>>) =>
                   call.handed[i] = <<>>

\* The pattern of an aggregate without children.
NoChildNeutralPatternWitness ==
    /\ call.op = "buildRegex" /\ children[Root] = <<>>
    /\ call.regex = <<>> /\ call.err = ""

\* C12: the success flag only goes from true to false within a read or a
\* write: after a moment at which it is false it is false at every later
\* moment and when the call returns; a call entered with the flag false
\* returns with it false and notifies nothing.
FlagMonotone ==
    IsAccess =>
        /\ \A i \in 1..Len(log) :
               ~log[i].ok => /\ \A j \in i..Len(log) : ~log[j].ok
                             /\ ~tok.Ok
        /\ ~call.okIn =>
               /\ ~tok.Ok
               /\ \A i \in 1..Len(log) : ~log[i].ok /\ log[i].ev # "notify"

\* A read entered with the flag false, whose first child reads its share.
FlagMonotoneWitness ==
    /\ IsAccess /\ call.op = "read" /\ ~call.okIn
    /\ Len(children[Root]) >= 2 /\ tok.index = 1
    /\ ~tok.Ok /\ Notifications(Root) = <<>>

\* C13: failure goes up through nesting.  When a child of the inner aggregate
\* returns with the success flag false, the inner aggregate returns to the
\* outer one with the flag false, the outer one invokes no child after that,
\* and the flag is false when the outer call returns.
NestedFailurePropagates ==
    IsAccess =>
        \A i \in 1..Len(log) :
            (log[i].ev = "back" /\ log[i].agg = Inner /\ ~log[i].ok) =>
                /\ \E j \in (i + 1)..Len(log) :
                       /\ log[j].ev = "back" /\ log[j].agg = Root /\ log[j].arg = Inner
                       /\ ~log[j].ok
                       /\ \A k \in (j + 1)..Len(log) :
                              ~(IsInvoke(log[k]) /\ log[k].agg = Root)
                /\ ~tok.Ok

\* The inner aggregate is the second of three children and its child fails a
\* read: the third child is not invoked.
NestedFailurePropagatesWitness ==
    /\ IsAccess /\ call.op = "read" /\ call.okIn /\ ~tok.Ok
    /\ Len(children[Root]) = 3 /\ children[Root][2] = Inner
    /\ InvokedSeq(Root) = SubSeq(children[Root], 1, 2)
    /\ \E i \in 1..Len(log) : log[i].ev = "back" /\ log[i].agg = Inner /\ ~log[i].ok
    /\ tok.index = 1

\* The position in the log of the leaf access that moved the cursor to k.
AdvanceTo(k) ==
    {i \in 2..Len(log) : /\ log[i].ev = "back" /\ log[i].arg \in Leaves
                         /\ log[i].index = k /\ log[i - 1].index = k - 1}

BuildRegexPure ==
    [][(call'.op = "buildRegex") =>
          /\ children' = children
          /\ mutable' = mutable
          /\ chopped' = chopped
          /\ tok' = tok /\ ~tok'.present
          /\ log' = <<>>
          /\ call'.regex = Cat(PatternsOf(Root, children))
          /\ call.op = "buildRegex" => call'.regex = call.regex]_vars

\* The pattern of a mutable aggregate of three children that a write has
\* reordered and that holds a final value.
BuildRegexPureWitness ==
    /\ call.op = "buildRegex" /\ mutable[Root]
    /\ Len(children[Root]) = 3 /\ children[Root] # declared[Root]
    /\ chopped[Root]
    /\ call.regex = Cat(PatternsOf(Root, children))

\* The children aggregate a asked for their definedness in log lg, in order.
QueriedIn(lg, a) ==
    LET qs == SelectSeq(lg, LAMBDA e : e.ev = "isDefined" /\ e.agg = a)
    IN [i \in 1..Len(qs) |-> qs[i].arg]

\* C16: isDefined stops at the first undefined child and has no side effect:
\* it asks the children in the order of the sequence, every child asked but
\* the last is defined, it stops before the end only at an undefined child,
\* and it changes neither the token's success flag, cursor and value, nor the
\* children's order, nor the final values, and notifies nothing.
IsDefinedShortCircuits ==
    [][(call'.op = "isDefined" /\ call'.present) =>
          LET q == QueriedIn(log', Root)
          IN /\ Len(q) <= Len(children[Root])
             /\ q = SubSeq(children[Root], 1, Len(q))
             /\ \A k \in 1..(Len(q) - 1) : DefinedUnder(q[k], children, tok')
             /\ Len(q) < Len(children[Root]) =>
                    Len(q) > 0 /\ ~DefinedUnder(q[Len(q)], children, tok')
             /\ \A i \in 1..Len(log') : log'[i].ev = "isDefined"
             /\ tok'.Ok = call'.okIn /\ tok'.index = 0 /\ tok'.value = <<>>
             /\ children' = children
             /\ chopped' = chopped
             /\ mutable' = mutable]_vars

\* Three children, the second undefined: the third is not asked.
IsDefinedShortCircuitsWitness ==
    /\ call.op = "isDefined" /\ call.present /\ ~call.ret
    /\ Len(children[Root]) = 3
    /\ QueriedIn(log, Root) = SubSeq(children[Root], 1, 2)
    /\ ~DefinedUnder(children[Root][2], children, tok)

\* C17: an aggregate notifies only once all its children have been
\* processed: nothing of that aggregate follows its notification and every
\* child of it has been invoked before; so the inner aggregate's notification
\* comes before the outer one's, and an inner aggregate that returned with the
\* flag true has notified even when the outer call then fails.
NotifyAfterChildren ==
    IsAccess =>
        /\ \A i \in 1..Len(log) :
               log[i].ev = "notify" =>
                   /\ \A j \in (i + 1)..Len(log) : log[j].agg # log[i].agg
                   /\ IsPermutation(InvokedSeq(log[i].agg), children[log[i].agg])
        /\ \A i, j \in 1..Len(log) :
               (/\ log[i].ev = "notify" /\ log[i].agg = Inner
                /\ log[j].ev = "notify" /\ log[j].agg = Root) => i < j
        /\ (Entered(Inner) /\ ReturnedOk(Inner)) => Len(Notifications(Inner)) = 1

\* The inner aggregate has written and notified, a later sibling fails: the
\* outer write fails and the inner notification stays.
NotifyAfterChildrenWitness ==
    /\ IsAccess /\ call.op = "write" /\ call.okIn /\ ~tok.Ok
    /\ Len(Notifications(Inner)) = 1
    /\ Notifications(Root) = <<>>
    /\ Len(InvokedSeq(Root)) >= 2

====
